---- MODULE Spec2Model ----
(***************************************************************************)
(* A model of s3cli.py, the command-line client of an S3-compatible store. *)
(*                                                                         *)
(* One behaviour is a series of invocations of the program, one after the  *)
(* other, against one bucket of one store.  Each invocation runs           *)
(*   main -> make_client -> one handler (do_upload, do_presign, do_head,   *)
(*   do_list, do_delete, do_overwrite) -> exit.                            *)
(* Text (environment values, paths, keys, prefixes) is a sequence of       *)
(* one-character strings, so that str.replace, Path.name, prefix matching  *)
(* and extension lookup are computed character by character.               *)
(***************************************************************************)
EXTENDS Integers, Sequences, FiniteSets, TLC

VARIABLES
    store,        \* the bucket: key -> [size, content_type, etag], on the keys present
    lastWrite,    \* history: key -> the local file of the last successful write not deleted since
    pc,           \* "idle", "make_client", "handler", "exited"
    cmd,          \* args.cmd, the subcommand
    args,         \* the argparse namespace of the subcommand
    env,          \* the process environment after load_dotenv()
    constructed,  \* the arguments of Minio(...), <<>> until the constructor is called
    calls,        \* the storage-client operations called, in order
    fault,        \* how the store answered the last call: "none", "rejected", "transport"
    raised,       \* the exception that ended the invocation, "None" if none (SystemExit apart)
    caught,       \* whether `raised` was handled by an except clause of the program
    exitCode,     \* the process's exit status, meaningful when pc = "exited"
    stdout,       \* the lines printed to standard output
    stderr        \* the lines printed to standard error

vars == <<store, lastWrite, pc, cmd, args, env, constructed, calls, fault,
          raised, caught, exitCode, stdout, stderr>>

-----------------------------------------------------------------------------
(* Bounds of the model *)

\* local files hold 0..MaxFileSize bytes
MaxFileSize == 1

-----------------------------------------------------------------------------
(* Text *)

\* Python's None where a string is expected
None == <<"None">>

HTTPS == <<"h", "t", "t", "p", "s", ":", "/", "/">>
HTTP == <<"h", "t", "t", "p", ":", "/", "/">>

\* str.startswith
startswith(s, p) == Len(p) <= Len(s) /\ SubSeq(s, 1, Len(p)) = p

\* str.replace(old, ""): every non-overlapping occurrence of old, left to right
RECURSIVE replace(_, _)
replace(s, old) ==
    IF Len(s) < Len(old) THEN s
    ELSE IF startswith(s, old) THEN replace(SubSeq(s, Len(old) + 1, Len(s)), old)
    ELSE <<Head(s)>> \o replace(Tail(s), old)

\* the endpoint expression of make_client
strip_scheme(v) == replace(replace(v, HTTPS), HTTP)

\* `if not v`: None and the empty string are falsy
Truthy(v) == v # None /\ v # <<>>

\* the path component kept by pathlib: empty and "." components are dropped
KeepComponent(cur, last) == IF cur = <<>> \/ cur = <<".">> THEN last ELSE cur

RECURSIVE ScanPath(_, _, _)
ScanPath(p, cur, last) ==
    IF p = <<>> THEN KeepComponent(cur, last)
    ELSE IF Head(p) = "/" THEN ScanPath(Tail(p), <<>>, KeepComponent(cur, last))
    ELSE ScanPath(Tail(p), Append(cur, Head(p)), last)

\* Path(p).name: the final path component
PathName(p) == ScanPath(p, <<>>, <<>>)

\* posixpath.splitext(name)[1]: from the last dot, unless only dots precede it
splitext(name) ==
    LET dots == {i \in 1..Len(name) : name[i] = "."}
    IN  IF dots = {} THEN <<>>
        ELSE LET i == CHOOSE d \in dots : \A e \in dots : e <= d
             IN  IF \A j \in 1..(i - 1) : name[j] = "." THEN <<>>
                 ELSE SubSeq(name, i, Len(name))

\* mimetypes.guess_type(name)[0], on the extensions the model's files use
guess_type(name) ==
    LET ext == splitext(name)
    IN  IF ext = <<".", "t", "x", "t">> THEN "text/plain"
        ELSE IF ext = <<".", "p", "n", "g">> THEN "image/png"
        ELSE "None"

\* faulty variant: the content type is never inferred
guess_content_type_default(path) == "application/octet-stream"

guess_content_type(path) ==
    LET ctype == guess_type(PathName(path))
    IN  IF ctype # "None" THEN ctype ELSE "application/octet-stream"

-----------------------------------------------------------------------------
(* Inputs *)

\* --expires, when the option is left out
DefaultExpires == 300

Commands == {"upload", "overwrite", "presign", "head", "list", "delete"}

Required == {"S3_ENDPOINT", "S3_ACCESS_KEY", "S3_SECRET_KEY", "S3_BUCKET"}

\* the variables make_client reads, in the order it reads them
ClientVars == <<"S3_ENDPOINT", "S3_ACCESS_KEY", "S3_SECRET_KEY">>

Host == <<"m">>

Endpoints ==
    { Host,
      HTTPS \o Host,
      HTTP \o Host,
      HTTPS,
      Host \o <<"/">> \o HTTP \o Host,
      <<"h", "t">> \o HTTP \o <<"t", "p", ":", "/", "/">> \o Host }

GoodEnv ==
    [n \in Required |->
        CASE n = "S3_ENDPOINT" -> HTTPS \o Host
          [] n = "S3_ACCESS_KEY" -> <<"A">>
          [] n = "S3_SECRET_KEY" -> <<"S">>
          [] n = "S3_BUCKET" -> <<"B">>]

\* the environments tried: the complete one, the complete one with one variable
\* changed (unset, empty, or another endpoint), and the empty environment
Environments ==
    {GoodEnv}
    \cup {[GoodEnv EXCEPT ![n] = v] : n \in Required, v \in {None, <<>>}}
    \cup {[GoodEnv EXCEPT !["S3_ENDPOINT"] = v] : v \in Endpoints}
    \cup {[n \in Required |-> None]}

FileTxt == <<"a", ".", "t", "x", "t">>
FileB == <<"d", "/", "b">>
Paths == {FileTxt, FileB}

\* what the path names on disk: nothing, a directory, or a file of some size
FileStates ==
    {[kind |-> "absent", size |-> 0], [kind |-> "dir", size |-> 0]}
    \cup {[kind |-> "file", size |-> n] : n \in 0..MaxFileSize}

PrefixP == <<"p", "/">>
KeyPB == <<"p", "/", "b">>

\* every key an upload of the model's files can write
ObjectKeys == {pre \o PathName(f) : pre \in {<<>>, PrefixP}, f \in Paths}

ArgsOf(c) ==
    CASE c = "upload" ->
            [insecure : BOOLEAN, file : Paths, fstat : FileStates,
             key : {None, <<>>, KeyPB}, prefix : {<<>>, PrefixP}]
      [] c = "overwrite" ->
            [insecure : BOOLEAN, key : {KeyPB}, file : Paths, fstat : FileStates]
      [] c = "presign" -> [insecure : BOOLEAN, key : ObjectKeys, expires : {DefaultExpires}]
      [] c = "head" -> [insecure : BOOLEAN, key : ObjectKeys]
      [] c = "list" -> [insecure : BOOLEAN, prefix : {<<>>, PrefixP, <<"a">>, <<"q">>}]
      [] c = "delete" -> [insecure : BOOLEAN, key : ObjectKeys]

\* the command line with every option left out
DefaultArgs(c) ==
    CASE c = "upload" ->
            [insecure |-> FALSE, file |-> FileTxt,
             fstat |-> [kind |-> "file", size |-> 0], key |-> None, prefix |-> <<>>]
      [] c = "overwrite" ->
            [insecure |-> FALSE, key |-> KeyPB, file |-> FileTxt,
             fstat |-> [kind |-> "file", size |-> 0]]
      [] c = "presign" -> [insecure |-> FALSE, key |-> KeyPB, expires |-> DefaultExpires]
      [] c = "head" -> [insecure |-> FALSE, key |-> KeyPB]
      [] c = "list" -> [insecure |-> FALSE, prefix |-> <<>>]
      [] c = "delete" -> [insecure |-> FALSE, key |-> KeyPB]

Faults == {"none", "rejected", "transport"}

-----------------------------------------------------------------------------
(* Output lines *)

MissingEnvVar(name) == [kind |-> "FATAL", what |-> "Missing env var", name |-> name]
FileNotFound(path) == [kind |-> "FATAL", what |-> "File not found", path |-> path]
ErrLine(e) == [kind |-> "ERR", error |-> e]
Traceback(e) == [kind |-> "Traceback", error |-> e]
StepLine(verb, path, bucket, key) ==
    [kind |-> "STEP", verb |-> verb, path |-> path, bucket |-> bucket, key |-> key]
OkLine(what) == [kind |-> "OK", what |-> what]
DeletedLine(key) == [kind |-> "OK", what |-> "Deleted:", key |-> key]
HeadLines(key, st) ==
    [kind |-> "HEAD", key |-> key, size |-> st.size,
     content_type |-> st.content_type, etag |-> st.etag]
ObjLine(o) == [kind |-> "OBJ", name |-> o.object_name, size |-> o.size]
EmptyLine == [kind |-> "EMPTY"]
UrlLine(u) == [kind |-> "URL", url |-> u]

-----------------------------------------------------------------------------
(* Init *)

\* a bucket holding no object
EmptyMap == [k \in {} |-> 0]

Init ==
    /\ store = EmptyMap
    /\ lastWrite = EmptyMap
    /\ pc = "idle"
    /\ cmd = "head"
    /\ args = DefaultArgs("head")
    /\ env = GoodEnv
    /\ constructed = <<>>
    /\ calls = <<>>
    /\ fault = "none"
    /\ raised = "None"
    /\ caught = FALSE
    /\ exitCode = 0
    /\ stdout = <<>>
    /\ stderr = <<>>

-----------------------------------------------------------------------------
(* Exits *)

\* sys.exit(1) of require_env
exit_missing_env == 1

\* sys.exit(1) of the file checks of do_upload and do_overwrite
exit_file_not_found == 1

\* faulty variant: do_head's except clause falls off its end
exit_head_error_dropped == 1 - 1

\* sys.exit(1) of do_head's except clause
exit_head_error == 1

\* the interpreter's exit status when an exception leaves main()
exit_uncaught == 1

\* the invocation ends: exit status, what was printed, what was raised
Terminate(code, out, err, ex, ct) ==
    /\ pc' = "exited"
    /\ exitCode' = code
    /\ stdout' = out
    /\ stderr' = err
    /\ raised' = ex
    /\ caught' = ct

\* print("[FATAL] ...", file=sys.stderr); sys.exit(1)
Fatal(line, code) == Terminate(code, stdout, <<line>>, "None", FALSE)

\* an exception no except clause handles leaves main(): the interpreter prints
\* the traceback to standard error and exits with status 1
Uncaught(ex, out) == Terminate(exit_uncaught, out, <<Traceback(ex)>>, ex, FALSE)

-----------------------------------------------------------------------------
(* Configuration loader and client factory *)

getenv(name) == env[name]

\* faulty variant: require_env without its check
require_env_unchecked(name) == TRUE

\* require_env returns (TRUE) or prints and exits (FALSE)
require_env(name) == Truthy(getenv(name))

\* the first variable of names that require_env exits on, "None" if none
FirstMissing(names) ==
    IF \A i \in 1..Len(names) : require_env(names[i]) THEN "None"
    ELSE names[CHOOSE i \in 1..Len(names) :
                   /\ ~require_env(names[i])
                   /\ \A j \in 1..(i - 1) : require_env(names[j])]

\* Minio(endpoint, ...) raises ValueError on an endpoint it cannot use as
\* host[:port]: one that holds a path certainly, the empty one possibly
MinioRaises(endpoint) ==
    IF \E i \in 1..Len(endpoint) : endpoint[i] = "/" THEN {TRUE}
    ELSE IF endpoint = <<>> THEN BOOLEAN
    ELSE {FALSE}

\* main(): parse the command line and dispatch; the handler starts with make_client
main(c, a, e) ==
    /\ pc = "idle"
    /\ pc' = "make_client"
    /\ cmd' = c
    /\ args' = a
    /\ env' = e
    /\ constructed' = <<>>
    /\ calls' = <<>>
    /\ fault' = "none"
    /\ raised' = "None"
    /\ caught' = FALSE
    /\ exitCode' = 0
    /\ stdout' = <<>>
    /\ stderr' = <<>>
    /\ UNCHANGED <<store, lastWrite>>

\* the process is gone: its exit status and output have been read, and nothing
\* of it but the bucket's content is left for the next invocation
reap ==
    /\ pc = "exited"
    /\ pc' = "idle"
    /\ cmd' = "head"
    /\ args' = DefaultArgs("head")
    /\ env' = GoodEnv
    /\ constructed' = <<>>
    /\ calls' = <<>>
    /\ fault' = "none"
    /\ raised' = "None"
    /\ caught' = FALSE
    /\ exitCode' = 0
    /\ stdout' = <<>>
    /\ stderr' = <<>>
    /\ UNCHANGED <<store, lastWrite>>

make_client ==
    /\ pc = "make_client"
    /\ LET m == FirstMissing(ClientVars)
       IN  IF m # "None"
           THEN /\ Fatal(MissingEnvVar(m), exit_missing_env)
                /\ UNCHANGED constructed
           ELSE LET endpoint == strip_scheme(getenv("S3_ENDPOINT"))
                IN  /\ constructed' =
                          <<[endpoint |-> endpoint,
                             access_key |-> getenv("S3_ACCESS_KEY"),
                             secret_key |-> getenv("S3_SECRET_KEY"),
                             secure |-> ~args.insecure]>>
                    /\ \E r \in MinioRaises(endpoint) :
                          IF r THEN Uncaught("ValueError", stdout)
                          ELSE /\ pc' = "handler"
                               /\ UNCHANGED <<exitCode, stdout, stderr, raised, caught>>
    /\ UNCHANGED <<store, lastWrite, cmd, args, env, calls, fault>>

-----------------------------------------------------------------------------
(* The store, as the storage client shows it *)

\* the exception a call ends with when the store does not serve it
FaultError(f) == IF f = "rejected" THEN "S3Error" ELSE "TransportError"

\* faulty variant: the call is made again
issue_twice(cs, c) == Append(Append(cs, c), c)

\* a storage-client operation is called
issue(cs, c) == Append(cs, c)

MapPut(m, k, v) == [x \in DOMAIN m \cup {k} |-> IF x = k THEN v ELSE m[x]]
MapRemove(m, k) == [x \in DOMAIN m \ {k} |-> m[x]]

\* the ETag the store computes from the content (content is modelled by its length)
ETagOf(length) == length

\* client.stat_object(bucket, key): the exception raised, or the metadata
stat_object(key, f) ==
    IF f # "none" THEN [exc |-> FaultError(f)]
    ELSE IF key \notin DOMAIN store THEN [exc |-> "S3Error"]
    ELSE [exc |-> "None", st |-> store[key]]

\* client.list_objects(bucket, prefix, recursive=True): the objects under prefix
list_objects(prefix) ==
    {[object_name |-> k, size |-> store[k].size] :
        k \in {x \in DOMAIN store : startswith(x, prefix)}}

\* client.presigned_get_object(bucket, key, expires)
presigned_get_object(bucket, key, expires) ==
    [endpoint |-> constructed[1].endpoint, bucket |-> bucket, key |-> key,
     expires |-> expires]

\* the objects in the order the store returns them
RECURSIVE SeqOf(_)
SeqOf(S) ==
    IF S = {} THEN <<>>
    ELSE LET x == CHOOSE y \in S : TRUE IN <<x>> \o SeqOf(S \ {x})

-----------------------------------------------------------------------------
(* Operation handlers, from the return of make_client on *)

\* faulty variant: the handler without its file check
exists_unchecked(fstat) == TRUE

\* Path.exists(): true of a directory too
exists(fstat) == fstat.kind # "absent"

\* Path.read_bytes() returns only on a file; on a directory it raises
\* IsADirectoryError
read_returns(fstat) == fstat.kind = "file"

\* len(file_path.read_bytes())
read_bytes(fstat) == fstat.size

\* key = args.key or f"{args.prefix}{file_path.name}"
upload_key(a) == IF Truthy(a.key) THEN a.key ELSE a.prefix \o PathName(a.file)

\* the rest of do_upload and of do_overwrite, which differ in the key and the words
put_file(verb, key, done) ==
    IF ~require_env("S3_BUCKET")
    THEN /\ Fatal(MissingEnvVar("S3_BUCKET"), exit_missing_env)
         /\ UNCHANGED <<store, lastWrite, calls, fault>>
    ELSE IF ~exists(args.fstat)
    THEN /\ Fatal(FileNotFound(args.file), exit_file_not_found)
         /\ UNCHANGED <<store, lastWrite, calls, fault>>
    ELSE IF ~read_returns(args.fstat)
    THEN /\ Uncaught("IsADirectoryError", stdout)
         /\ UNCHANGED <<store, lastWrite, calls, fault>>
    ELSE LET bucket == getenv("S3_BUCKET")
             content_type == guess_content_type(args.file)
             length == read_bytes(args.fstat)
             out == <<StepLine(verb, args.file, bucket, key)>>
         IN  \E f \in Faults :
                /\ calls' = issue(calls, [op |-> "put_object", bucket |-> bucket, key |-> key])
                /\ fault' = f
                /\ IF f = "none"
                   THEN /\ store' = MapPut(store, key,
                                [size |-> length, content_type |-> content_type,
                                 etag |-> ETagOf(length)])
                        /\ lastWrite' = MapPut(lastWrite, key,
                                [file |-> args.file, size |-> args.fstat.size])
                        /\ Terminate(0, Append(out, OkLine(done)), <<>>, "None", FALSE)
                   ELSE /\ UNCHANGED <<store, lastWrite>>
                        /\ Uncaught(FaultError(f), out)

do_upload ==
    /\ pc = "handler"
    /\ cmd = "upload"
    /\ put_file("Uploading", upload_key(args), "Uploaded.")
    /\ UNCHANGED <<cmd, args, env, constructed>>

do_overwrite ==
    /\ pc = "handler"
    /\ cmd = "overwrite"
    /\ put_file("Overwriting", args.key, "Overwritten.")
    /\ UNCHANGED <<cmd, args, env, constructed>>

do_presign ==
    /\ pc = "handler"
    /\ cmd = "presign"
    /\ IF ~require_env("S3_BUCKET")
       THEN /\ Fatal(MissingEnvVar("S3_BUCKET"), exit_missing_env)
            /\ UNCHANGED <<calls, fault>>
       ELSE LET bucket == getenv("S3_BUCKET")
            IN  \E f \in Faults :
                   /\ calls' = issue(calls, [op |-> "presigned_get_object",
                                             bucket |-> bucket, key |-> args.key])
                   /\ fault' = f
                   /\ IF f = "none"
                      THEN Terminate(0,
                               <<UrlLine(presigned_get_object(bucket, args.key, args.expires))>>,
                               <<>>, "None", FALSE)
                      ELSE Uncaught(FaultError(f), stdout)
    /\ UNCHANGED <<store, lastWrite, cmd, args, env, constructed>>

\* faulty variant: do_head without its except clause
head_catches_nothing(ex) == FALSE

\* `except S3Error`: the one except clause of the program
head_catches(ex) == ex = "S3Error"

do_head ==
    /\ pc = "handler"
    /\ cmd = "head"
    /\ IF ~require_env("S3_BUCKET")
       THEN /\ Fatal(MissingEnvVar("S3_BUCKET"), exit_missing_env)
            /\ UNCHANGED <<calls, fault>>
       ELSE LET bucket == getenv("S3_BUCKET")
            IN  \E f \in Faults :
                   /\ calls' = issue(calls, [op |-> "stat_object",
                                             bucket |-> bucket, key |-> args.key])
                   /\ fault' = f
                   /\ LET r == stat_object(args.key, f)
                      IN  IF r.exc = "None"
                          THEN Terminate(0, <<HeadLines(args.key, r.st)>>, <<>>, "None", FALSE)
                          ELSE IF head_catches(r.exc)
                          THEN Terminate(exit_head_error, stdout, <<ErrLine(r.exc)>>, r.exc, TRUE)
                          ELSE Uncaught(r.exc, stdout)
    /\ UNCHANGED <<store, lastWrite, cmd, args, env, constructed>>

\* faulty variant: do_list without its `found` flag
list_output_unflagged(objs) ==
    Append([i \in 1..Len(objs) |-> ObjLine(objs[i])], EmptyLine)

\* the loop of do_list and the `if not found` after it
list_output(objs) ==
    IF objs = <<>> THEN <<EmptyLine>>
    ELSE [i \in 1..Len(objs) |-> ObjLine(objs[i])]

\* the bucket of the model holds a handful of objects, so a listing is one
\* request: when it fails, nothing has been printed
do_list ==
    /\ pc = "handler"
    /\ cmd = "list"
    /\ IF ~require_env("S3_BUCKET")
       THEN /\ Fatal(MissingEnvVar("S3_BUCKET"), exit_missing_env)
            /\ UNCHANGED <<calls, fault>>
       ELSE LET bucket == getenv("S3_BUCKET")
                prefix == IF Truthy(args.prefix) THEN args.prefix ELSE <<>>
            IN  \E f \in Faults :
                   /\ calls' = issue(calls, [op |-> "list_objects",
                                             bucket |-> bucket, key |-> prefix])
                   /\ fault' = f
                   /\ IF f = "none"
                      THEN Terminate(0, list_output(SeqOf(list_objects(prefix))),
                                     <<>>, "None", FALSE)
                      ELSE Uncaught(FaultError(f), stdout)
    /\ UNCHANGED <<store, lastWrite, cmd, args, env, constructed>>

do_delete ==
    /\ pc = "handler"
    /\ cmd = "delete"
    /\ IF ~require_env("S3_BUCKET")
       THEN /\ Fatal(MissingEnvVar("S3_BUCKET"), exit_missing_env)
            /\ UNCHANGED <<store, lastWrite, calls, fault>>
       ELSE LET bucket == getenv("S3_BUCKET")
            IN  \E f \in Faults :
                   /\ calls' = issue(calls, [op |-> "remove_object",
                                             bucket |-> bucket, key |-> args.key])
                   /\ fault' = f
                   /\ IF f = "none"
                      THEN /\ store' = MapRemove(store, args.key)
                           /\ lastWrite' = MapRemove(lastWrite, args.key)
                           /\ Terminate(0, <<DeletedLine(args.key)>>, <<>>, "None", FALSE)
                      ELSE /\ UNCHANGED <<store, lastWrite>>
                           /\ Uncaught(FaultError(f), stdout)
    /\ UNCHANGED <<cmd, args, env, constructed>>

-----------------------------------------------------------------------------
(* The specification *)

\* the command lines tried: under the complete environment every command line
\* without --insecure and the plain command line with it, and under every other
\* environment the plain command line of every command (an incomplete
\* environment ends the invocation before the arguments are read, and the
\* endpoint and --insecure are read by make_client alone)
Invocations ==
    UNION {{[cmd |-> c, args |-> a, env |-> e] :
               a \in {x \in ArgsOf(c) :
                         \/ e = GoodEnv /\ ~x.insecure
                         \/ x = DefaultArgs(c)
                         \/ e = GoodEnv /\ x = [DefaultArgs(c) EXCEPT !.insecure = TRUE]}} :
           c \in Commands, e \in Environments}

Invoke == \E i \in Invocations : main(i.cmd, i.args, i.env)

Next ==
    \/ Invoke
    \/ reap
    \/ make_client
    \/ do_upload
    \/ do_overwrite
    \/ do_presign
    \/ do_head
    \/ do_list
    \/ do_delete

Spec == Init /\ [][Next]_vars

-----------------------------------------------------------------------------
(* Properties *)

UploadOrOverwrite == {"upload", "overwrite"}

\* every required variable is set to a non-empty value
ConfigComplete == \A n \in Required : env[n] # None /\ env[n] # <<>>

\* the store did not serve the call of the invocation that has ended
StoreRejected ==
    /\ pc = "exited"
    /\ calls # <<>>
    /\ fault # "none" \/ (cmd = "head" /\ args.key \notin DOMAIN store)

\* C1: when one of the four required environment variables is omitted, the
\* invocation of any command exits with code 1 and calls no operation of the
\* store, neither before it exits nor while it runs.
C1_MissingEnvExits ==
    (pc # "idle" /\ \E n \in Required : env[n] = None)
        => /\ calls = <<>>
           /\ pc = "exited" => exitCode = 1 /\ stderr # <<>>

C1_Witness ==
    /\ pc = "exited"
    /\ cmd = "delete"
    /\ env["S3_BUCKET"] = None
    /\ \A n \in Required \ {"S3_BUCKET"} : env[n] # None
    /\ constructed # <<>>
    /\ exitCode = 1
    /\ calls = <<>>

\* C2, as claimed: when the store rejects the call of any command, the error
\* is caught at the call site, a message is printed to the error stream and
\* the process exits non-zero.
C2_Original == StoreRejected => caught /\ stderr # <<>> /\ exitCode # 0

\* C2, amended: when the store rejects the call of any command, one message is
\* printed to the error stream and the process exits with code 1; the error is
\* caught at the call site only by head, and only when it is an S3Error; every
\* other error leaves main() uncaught.
C2_RemoteErrorExits ==
    StoreRejected
        => /\ exitCode = 1
           /\ Len(stderr) = 1
           /\ raised # "None"
           /\ caught <=> (cmd = "head" /\ raised = "S3Error")
           /\ caught => stderr = <<ErrLine(raised)>>
           /\ ~caught => stderr = <<Traceback(raised)>>

C2_Witness ==
    /\ StoreRejected
    /\ cmd = "delete"
    /\ fault = "rejected"
    /\ raised = "S3Error"
    /\ ~caught
    /\ exitCode = 1

\* C3: when the local file of an upload or overwrite does not exist, the
\* invocation exits with code 1 after printing an error (the file-not-found
\* message, when the configuration is complete), no operation of the store is
\* called and the content of the store does not change.
C3_MissingFileExits ==
    [][(pc \in {"make_client", "handler"}
        /\ cmd \in UploadOrOverwrite
        /\ args.fstat.kind = "absent")
       => /\ store' = store
          /\ calls' = <<>>
          /\ pc = "handler" => pc' = "exited"
          /\ pc' = "exited" => exitCode' = 1 /\ stderr' # <<>>
          /\ (pc = "handler" /\ ConfigComplete)
                => stderr' = <<FileNotFound(args.file)>>]_vars

C3_Witness ==
    /\ pc = "exited"
    /\ cmd = "upload"
    /\ args.fstat.kind = "absent"
    /\ ConfigComplete
    /\ stderr = <<FileNotFound(args.file)>>
    /\ exitCode = 1
    /\ calls = <<>>
    /\ store # EmptyMap

\* C4: an upload writes the object under prefix + basename(file) when no --key
\* is given, and under exactly the given key, whatever its value, when --key is
\* given.
C4_UploadKey ==
    (pc = "exited" /\ cmd = "upload" /\ calls # <<>>)
        => calls[1].key = IF args.key = None
                          THEN args.prefix \o PathName(args.file)
                          ELSE args.key

\* the content type of the model's files, by their extension
ExpectedType(file) ==
    IF file = FileTxt THEN "text/plain" ELSE "application/octet-stream"

\* C5: when the last successful operation on key K was an upload or overwrite
\* of local file F, a head of K that the store serves exits 0 and prints the
\* byte length of F and the content type inferred from F's extension
\* (application/octet-stream when there is none).
C5_RoundTrip ==
    (pc = "exited" /\ cmd = "head" /\ calls # <<>> /\ fault = "none"
     /\ args.key \in DOMAIN lastWrite)
        => /\ exitCode = 0
           /\ stderr = <<>>
           /\ Len(stdout) = 1
           /\ stdout[1].kind = "HEAD"
           /\ stdout[1].key = args.key
           /\ stdout[1].size = lastWrite[args.key].size
           /\ stdout[1].content_type = ExpectedType(lastWrite[args.key].file)

C5_Witness ==
    /\ pc = "exited"
    /\ cmd = "head"
    /\ args.key = KeyPB
    /\ args.key \in DOMAIN lastWrite
    /\ lastWrite[args.key].file = FileTxt
    /\ exitCode = 0
    /\ Len(stdout) = 1
    /\ stdout[1].size = 1
    /\ stdout[1].content_type = "text/plain"

\* C6: head on a key the bucket does not hold (never written, or deleted after
\* its last write) prints an error to the error stream, prints no metadata and
\* exits with code 1.
C6_HeadMissingKey ==
    (pc = "exited" /\ cmd = "head" /\ args.key \notin DOMAIN lastWrite)
        => /\ exitCode = 1
           /\ stderr # <<>>
           /\ stdout = <<>>

C6_Witness ==
    /\ pc = "exited"
    /\ cmd = "head"
    /\ calls # <<>>
    /\ fault = "none"
    /\ args.key \notin DOMAIN lastWrite
    /\ lastWrite # EmptyMap
    /\ stderr = <<ErrLine("S3Error")>>
    /\ exitCode = 1

C8_ConfigNonEmpty ==
    /\ \A i \in 1..Len(constructed) :
          /\ constructed[i].endpoint # <<>>
          /\ constructed[i].access_key # <<>> /\ constructed[i].access_key # None
          /\ constructed[i].secret_key # <<>> /\ constructed[i].secret_key # None
    /\ \A i \in 1..Len(calls) : calls[i].bucket # <<>> /\ calls[i].bucket # None

\* the value with its leading scheme, if it has one, removed
LeadingSchemeRemoved(v) ==
    IF Len(v) >= Len(HTTPS) /\ SubSeq(v, 1, Len(HTTPS)) = HTTPS
    THEN SubSeq(v, Len(HTTPS) + 1, Len(v))
    ELSE IF Len(v) >= Len(HTTP) /\ SubSeq(v, 1, Len(HTTP)) = HTTP
    THEN SubSeq(v, Len(HTTP) + 1, Len(v))
    ELSE v

\* C9: for every value of S3_ENDPOINT, the endpoint passed to the client does
\* not begin with "http://" or "https://", and is the configured value with
\* only its leading scheme removed.
C9_SchemeStripped ==
    \A i \in 1..Len(constructed) :
        LET e == constructed[i].endpoint
        IN  /\ ~(Len(e) >= Len(HTTP) /\ SubSeq(e, 1, Len(HTTP)) = HTTP)
            /\ ~(Len(e) >= Len(HTTPS) /\ SubSeq(e, 1, Len(HTTPS)) = HTTPS)
            /\ e = LeadingSchemeRemoved(env["S3_ENDPOINT"])

\* the keys of the bucket that begin with prefix
KeysUnder(prefix) ==
    {k \in DOMAIN store :
        Len(prefix) <= Len(k) /\ SubSeq(k, 1, Len(prefix)) = prefix}

\* C10: a list that the store serves prints the line "(empty)" exactly when no
\* object of the bucket has a key under the prefix; otherwise it prints one
\* line, name and size, per such object and no other line.
C10_ListOutput ==
    (pc = "exited" /\ cmd = "list" /\ calls # <<>> /\ fault = "none")
        => LET under == KeysUnder(args.prefix)
           IN  /\ exitCode = 0
               /\ (\E i \in 1..Len(stdout) : stdout[i] = EmptyLine) <=> under = {}
               /\ under = {} => stdout = <<EmptyLine>>
               /\ under # {} =>
                    /\ Len(stdout) = Cardinality(under)
                    /\ \A k \in under : \E i \in 1..Len(stdout) :
                          stdout[i] = [kind |-> "OBJ", name |-> k,
                                       size |-> store[k].size]

C10_Witness ==
    /\ pc = "exited"
    /\ cmd = "list"
    /\ fault = "none"
    /\ args.prefix = PrefixP
    /\ Len(stdout) = 2
    /\ stdout[1].kind = "OBJ"
    /\ Cardinality(DOMAIN store) > 2

====
